---- MODULE Spec2Model ----
(***************************************************************************)
(* The batch generation and write pipeline of "Data Generation/            *)
(* complete_generator.py": the script's module-level code is executed top  *)
(* to bottom, i.e. the first main block (lines 284-328) runs the four       *)
(* pipelines defined at lines 60-281, then the definitions of lines 331-537 *)
(* rebind the same names and the second main block (lines 540-565) runs    *)
(* the four pipelines again.                                                *)
(***************************************************************************)
EXTENDS Integers, Sequences, FiniteSets, TLC

VARIABLES
    config,        \* the values of config.py read at lines 27-41
    now,           \* the wall clock read by datetime.now()
    block,         \* 1: lines 59-328, 2: lines 330-565
    stage,         \* which of the four pipeline calls of the main block is next/running
    pc,            \* position inside the main block / the running pipeline function
    num_batches,   \* local num_batches of the running pipeline
    batch_num,     \* loop variable batch_num of the running pipeline
    records,       \* the list customers / products / sales_reps / transactions
    df_batch,      \* the DataFrame df_batch (df in the unbatched pipeline)
    transaction,   \* the reference field of the dict `transaction` last evaluated
    all_files,     \* local all_files of the running pipeline
    dirs,          \* directories that exist on disk
    files,         \* files on disk: path -> content
    started,       \* history: pipeline functions called so far in this process
    completed,     \* history: pipeline functions that returned in this process
    ranges,        \* history: (start_id, current_batch_size) of the loop iterations
                   \*          of the running pipeline
    log,           \* history: every record synthesized in this process, in order
    writes,        \* history: every path written in this process, in order
    write_failed,  \* history: a write raised in this process
    run,           \* how many times the script has been started
    prev_log,      \* history: the log of the previous process
    prev_run,      \* history: configuration and output tree of the previous process
    reclaimed,     \* history: gc.collect() has run since the last record was synthesized
    stdout,        \* the progress, completion and summary lines printed by this process
    exit_code      \* process exit status: << >> while running, <<status>> after exit

vars == <<config, now, block, stage, pc, num_batches, batch_num, records, df_batch,
          transaction, all_files, dirs, files, started, completed, ranges, log,
          writes, write_failed, run, prev_log, prev_run, reclaimed, stdout, exit_code>>

(***************************************************************************)
(* Bounds of the model.                                                    *)
(***************************************************************************)
MaxCount == 3        \* valid configurations: NUM_CUSTOMERS, NUM_TRANSACTIONS in 1 .. MaxCount
MaxRefCount == 2     \* valid configurations: NUM_PRODUCTS, NUM_SALES_REPS in 1 .. MaxRefCount
MaxBatchSize == 2    \* valid configurations: every *_BATCH_SIZE is in 1 .. MaxBatchSize
BadRange == 1        \* unvalidated configurations: every setting in -BadRange .. BadRange
MaxClock == 1        \* the wall clock takes the values 0 .. MaxClock
MaxRuns == 2         \* the script is started at most MaxRuns times
MaxRerunCount == 2   \* two-run specification: every NUM_* is in 1 .. MaxRerunCount

None == [none |-> TRUE]

Min(a, b) == IF a <= b THEN a ELSE b

(***************************************************************************)
(* Python's integer operators and formatting.                              *)
(***************************************************************************)
\* a // b for b # 0 (floor division, any signs)
PyFloorDiv(a, b) == IF b > 0 THEN a \div b ELSE (-a) \div (-b)

RECURSIVE Digits(_)
Digits(n) == IF n < 10 THEN <<n>> ELSE Digits(n \div 10) \o <<n % 10>>

RECURSIVE Zeros(_)
Zeros(k) == IF k <= 0 THEN << >> ELSE <<0>> \o Zeros(k - 1)

\* f"{n:0<width>d}" for n >= 0: the decimal digits of n, left-padded with zeros
\* to at least `width` characters
FormatInt(n, width) == Zeros(width - Len(Digits(n))) \o Digits(n)

\* int(digits)
RECURSIVE ParseInt(_)
ParseInt(d) == IF Len(d) = 0 THEN 0
               ELSE 10 * ParseInt(SubSeq(d, 1, Len(d) - 1)) + d[Len(d)]

\* f"<prefix>{n:0<width>d}"
FormatId(prefix, n, width) == [prefix |-> prefix, digits |-> FormatInt(n, width)]


(***************************************************************************)
(* The parameters in which the eight pipeline functions differ.            *)
(*   N, B        the total count and batch size the function reads         *)
(*   prefix, idwidth, first   the identifier f"{prefix}{first + i:0{w}d}"  *)
(*   stem, idxwidth           the file name f"{stem}{batch_num:0{w}d}.ext" *)
(*   batched     FALSE: one frame with all N records, file name = stem     *)
(*   collects    gc.collect() after every batch                            *)
(***************************************************************************)
generate_all_customers(b) ==
    [entity |-> "customers", dir |-> "generated-data/customers",
     N |-> config.NUM_CUSTOMERS, B |-> config.CUSTOMER_BATCH_SIZE,
     prefix |-> "CUST", idwidth |-> IF b = 1 THEN 8 ELSE 6, first |-> 0,
     stem |-> "customers_batch_", idxwidth |-> IF b = 1 THEN 5 ELSE 3,
     batched |-> TRUE, collects |-> (b = 1)]

generate_products(b) ==
    [entity |-> "products", dir |-> "generated-data/products",
     N |-> config.NUM_PRODUCTS, B |-> config.PRODUCT_BATCH_SIZE,
     prefix |-> "PROD", idwidth |-> IF b = 1 THEN 8 ELSE 6, first |-> 0,
     stem |-> "products_batch_", idxwidth |-> IF b = 1 THEN 5 ELSE 3,
     batched |-> TRUE, collects |-> (b = 1)]

generate_sales_reps(b) ==
    IF b = 1
    THEN [entity |-> "sales_reps", dir |-> "generated-data/sales-reps",
          N |-> config.NUM_SALES_REPS, B |-> config.PRODUCT_BATCH_SIZE,
          prefix |-> "SREP", idwidth |-> 8, first |-> 0,
          stem |-> "sales_reps_batch_", idxwidth |-> 5,
          batched |-> TRUE, collects |-> TRUE]
    ELSE [entity |-> "sales_reps", dir |-> "generated-data/sales-reps",
          N |-> config.NUM_SALES_REPS, B |-> config.NUM_SALES_REPS,
          prefix |-> "SREP", idwidth |-> 4, first |-> 1,
          stem |-> "sales_reps", idxwidth |-> 0,
          batched |-> FALSE, collects |-> FALSE]

generate_all_transactions(b) ==
    [entity |-> "transactions", dir |-> "generated-data/transactions",
     N |-> config.NUM_TRANSACTIONS, B |-> config.TRANSACTION_BATCH_SIZE,
     prefix |-> "TXN", idwidth |-> IF b = 1 THEN 12 ELSE 9, first |-> 0,
     stem |-> "transactions_batch_", idxwidth |-> IF b = 1 THEN 5 ELSE 3,
     batched |-> TRUE, collects |-> (b = 1)]

\* the s-th call of the main block b (lines 291-300, 544-547)
MainCall(b, s) ==
    CASE s = 1 -> generate_all_customers(b)
      [] s = 2 -> generate_products(b)
      [] s = 3 -> generate_sales_reps(b)
      [] s = 4 -> generate_all_transactions(b)

Cur == MainCall(block, stage)

\* the reference fields of a transaction: random.randint(lo, hi), formatted
CustomerRef(b) == [lo |-> 0, hi |-> config.NUM_CUSTOMERS - 1,
                   prefix |-> "CUST", width |-> IF b = 1 THEN 8 ELSE 6]
ProductRef(b)  == [lo |-> 0, hi |-> config.NUM_PRODUCTS - 1,
                   prefix |-> "PROD", width |-> IF b = 1 THEN 8 ELSE 6]
SalesRepRef(b) == IF b = 1
                  THEN [lo |-> 0, hi |-> config.NUM_SALES_REPS - 1,
                        prefix |-> "SREP", width |-> 8]
                  ELSE [lo |-> 1, hi |-> config.NUM_SALES_REPS,
                        prefix |-> "SREP", width |-> 4]

(***************************************************************************)
(* The batch loop.                                                         *)
(***************************************************************************)
\* a batch count of N // B + 1 (the formula of the summary lines 318-321)
NumBatches_floor_plus_one(N, B) == PyFloorDiv(N, B) + 1

NumBatches(N, B) == PyFloorDiv(N + B - 1, B)
StartId(k, B) == k * B
CurrentBatchSize(k, N, B) == Min(B, N - StartId(k, B))

\* one synthesized record: its identifier and its created_at
Record(p, n) == [entity |-> p.entity,
                 id |-> FormatId(p.prefix, p.first + n, p.idwidth),
                 created_at |-> now]

\* the records of range(size) from start_id, in order
BatchRecords(p, start_id, size) ==
    [i \in 1 .. (IF size > 0 THEN size ELSE 0) |-> Record(p, start_id + i - 1)]

\* the output path of batch k
FileName(p, k) ==
    [dir |-> p.dir, stem |-> p.stem,
     index |-> IF p.batched THEN FormatInt(k, p.idxwidth) ELSE << >>,
     ext |-> IF config.OUTPUT_FORMAT = "parquet" THEN "parquet" ELSE "csv"]

\* to_parquet / to_csv: the file at path then holds exactly the frame's rows
WriteFile(fs, path, rows) ==
    [f \in (DOMAIN fs) \cup {path} |->
        IF f = path THEN [rows |-> rows, valid |-> TRUE] ELSE fs[f]]

\* a write that raised part-way: the path holds a truncated, unreadable file
TruncatedFile(fs, path) ==
    [f \in (DOMAIN fs) \cup {path} |->
        IF f = path THEN [rows |-> << >>, valid |-> FALSE] ELSE fs[f]]

(***************************************************************************)
(* The printed lines that carry a batch range or a file count.             *)
(***************************************************************************)
\* f"  Batch {k}/{of} ({lo} to {hi})"
ProgressLine(b, p, k, of, lo, hi) ==
    [kind |-> "batch", block |-> b, entity |-> p.entity,
     batch |-> k, of |-> of, lo |-> lo, hi |-> hi]

\* f"Generated {N} <entity> in {len(all_files)} files"
GeneratedLine(b, p, n) ==
    [kind |-> "generated", block |-> b, entity |-> p.entity, files |-> n]

\* the "Generated data structure" lines of the summary: N // B + 1 files in the
\* first block, literal counts in the second
SummaryCount(b, s) ==
    IF b = 1 THEN PyFloorDiv(MainCall(1, s).N, MainCall(1, s).B) + 1
    ELSE CASE s = 1 -> 10 [] s = 2 -> 5 [] s = 3 -> 1 [] s = 4 -> 20

SummaryLines(b) ==
    [s \in 1 .. 4 |-> [kind |-> "summary", block |-> b,
                       entity |-> MainCall(b, s).entity, files |-> SummaryCount(b, s)]]

\* what a pipeline function prints when its loop is over: the second definitions
\* of the batched functions print one more progress line first
ReturnLines(b, p, nb, n) ==
    IF ~p.batched THEN << >>
    ELSE IF b = 1 THEN <<GeneratedLine(b, p, n)>>
    ELSE <<ProgressLine(b, p, nb, nb, p.N - p.B, p.N - 1), GeneratedLine(b, p, n)>>

(***************************************************************************)
(* Configurations (config.py) and the initial state: a fresh process on an *)
(* empty output tree.                                                      *)
(***************************************************************************)
Configs(counts, refcounts, sizes) ==
    [NUM_CUSTOMERS : counts, NUM_PRODUCTS : refcounts, NUM_SALES_REPS : refcounts,
     NUM_TRANSACTIONS : counts,
     CUSTOMER_BATCH_SIZE : sizes, PRODUCT_BATCH_SIZE : sizes,
     TRANSACTION_BATCH_SIZE : sizes,
     OUTPUT_FORMAT : {"parquet", "csv"}]

ValidConfigs == Configs(1 .. MaxCount, 1 .. MaxRefCount, 1 .. MaxBatchSize)
AnyConfigs == Configs((0 - BadRange) .. BadRange, (0 - BadRange) .. BadRange,
                      (0 - BadRange) .. BadRange)
RerunConfigs == Configs(1 .. MaxRerunCount, 1 .. MaxRerunCount, 1 .. MaxBatchSize)
\* the configurations of the resized re-run: the customers pipeline with any
\* count and batch size, one record and one batch for the other entities
ResizeConfigs ==
    {c \in Configs(1 .. MaxRerunCount, {1}, 1 .. MaxBatchSize) :
        /\ c.NUM_TRANSACTIONS = 1
        /\ c.PRODUCT_BATCH_SIZE = 1 /\ c.TRANSACTION_BATCH_SIZE = 1}

ValidConfig == /\ config.NUM_CUSTOMERS > 0 /\ config.NUM_PRODUCTS > 0
               /\ config.NUM_SALES_REPS > 0 /\ config.NUM_TRANSACTIONS > 0
               /\ config.CUSTOMER_BATCH_SIZE > 0 /\ config.PRODUCT_BATCH_SIZE > 0
               /\ config.TRANSACTION_BATCH_SIZE > 0

\* the state of a process that has just been started (nothing of the disk)
ProcessStart ==
    /\ block = 1 /\ stage = 1 /\ pc = "call"
    /\ num_batches = 0 /\ batch_num = 0
    /\ records = << >> /\ df_batch = << >> /\ transaction = None
    /\ all_files = << >> /\ started = << >> /\ completed = << >>
    /\ ranges = << >> /\ log = << >> /\ writes = << >>
    /\ write_failed = FALSE /\ exit_code = << >>
    /\ reclaimed = FALSE /\ stdout = << >>

InitWith(configs) ==
    /\ config \in configs
    /\ now = 0 /\ run = 1 /\ prev_log = << >> /\ prev_run = None
    /\ dirs = {} /\ files = << >>
    /\ ProcessStart

Init == InitWith(ValidConfigs)
InitAnyConfig == InitWith(AnyConfigs)
InitRerun == InitWith(RerunConfigs)
InitResize == InitWith(ResizeConfigs)

(***************************************************************************)
(* Exceptions: every statement of a main block is inside its try, whose    *)
(* handler prints the traceback and calls sys.exit(1).                     *)
(***************************************************************************)
Raise == pc' = "exited" /\ exit_code' = <<1>>

Exited(status) == pc = "exited" /\ exit_code = <<status>>

(***************************************************************************)
(* The main block calls the next pipeline function: os.makedirs, then the  *)
(* batch count (batched functions) or all the records at once (the second  *)
(* generate_sales_reps).                                                   *)
(***************************************************************************)
CallPipeline ==
    /\ pc = "call"
    /\ dirs' = dirs \cup {"generated-data", Cur.dir}
    /\ started' = Append(started, Cur.entity)
    /\ all_files' = << >>
    /\ ranges' = << >>
    /\ batch_num' = 0
    /\ IF Cur.batched
       THEN IF Cur.B = 0
            THEN Raise /\ UNCHANGED <<num_batches, records, df_batch, log>>
            ELSE /\ num_batches' = NumBatches(Cur.N, Cur.B)
                 /\ pc' = "loop"
                 /\ UNCHANGED <<records, df_batch, log, exit_code>>
       ELSE /\ records' = BatchRecords(Cur, 0, Cur.N)
            /\ df_batch' = records'
            /\ log' = log \o records'
            /\ pc' = "write"
            /\ UNCHANGED <<num_batches, exit_code>>
    /\ reclaimed' = (Cur.batched /\ reclaimed)
    /\ UNCHANGED <<config, now, block, stage, transaction, files, completed, writes,
                   write_failed, run, prev_log, prev_run, stdout>>

\* one iteration of `for batch_num in range(num_batches)` up to the DataFrame;
\* the transaction records are synthesized one by one (SynthesizeTransaction)
BeginBatch ==
    /\ pc = "loop"
    /\ batch_num < num_batches
    /\ LET start_id == StartId(batch_num, Cur.B)
           current_batch_size == CurrentBatchSize(batch_num, Cur.N, Cur.B)
           batch == BatchRecords(Cur, start_id, current_batch_size)
       IN /\ ranges' = Append(ranges, [start |-> start_id, len |-> current_batch_size])
          /\ IF Cur.entity = "transactions"
             THEN /\ records' = << >>
                  /\ pc' = "synth"
                  /\ UNCHANGED <<df_batch, log>>
             ELSE /\ records' = IF Cur.entity = "customers" THEN << >> ELSE batch
                  /\ df_batch' = batch
                  /\ log' = log \o batch
                  /\ pc' = "write"
          /\ stdout' = Append(stdout,
                              ProgressLine(block, Cur, batch_num + 1, num_batches, start_id,
                                           start_id + current_batch_size - 1))
    /\ reclaimed' = FALSE
    /\ UNCHANGED <<config, now, block, stage, num_batches, batch_num, transaction,
                   all_files, dirs, files, started, completed, writes, write_failed,
                   run, prev_log, prev_run, exit_code>>

\* random.randint(lo, hi) raises ValueError on an empty range
EmptyRange(r) == r.hi < r.lo

\* the reference fields of the dict, in evaluation order
NextField(t) == IF t = None \/ t.field = "sales_rep_id" THEN "customer_id"
                ELSE IF t.field = "customer_id" THEN "product_id"
                ELSE "sales_rep_id"

Reference(b, field) == CASE field = "customer_id" -> CustomerRef(b)
                         [] field = "product_id" -> ProductRef(b)
                         [] field = "sales_rep_id" -> SalesRepRef(b)

\* one iteration of `for i in range(current_batch_size)` of generate_all_transactions,
\* one reference field at a time: random.randint and its formatting; the dict is
\* complete, and appended, with its last reference
SynthesizeTransaction ==
    /\ pc = "synth"
    /\ Len(records) < CurrentBatchSize(batch_num, Cur.N, Cur.B)
    /\ LET transaction_id == StartId(batch_num, Cur.B) + Len(records)
           field == NextField(transaction)
           r == Reference(block, field)
       IN IF EmptyRange(r)
          THEN Raise /\ UNCHANGED <<records, transaction, log>>
          ELSE /\ \E n \in r.lo .. r.hi :
                     transaction' = [field |-> field,
                                     value |-> FormatId(r.prefix, n, r.width)]
               /\ IF field = "sales_rep_id"
                  THEN /\ records' = Append(records, Record(Cur, transaction_id))
                       /\ log' = Append(log, Record(Cur, transaction_id))
                  ELSE UNCHANGED <<records, log>>
               /\ UNCHANGED <<pc, exit_code>>
    /\ UNCHANGED <<config, now, block, stage, num_batches, batch_num, df_batch,
                   all_files, dirs, files, started, completed, ranges, writes,
                   write_failed, run, prev_log, prev_run, reclaimed, stdout>>

\* df_batch = pd.DataFrame(transactions)
BuildFrame ==
    /\ pc = "synth"
    /\ Len(records) >= CurrentBatchSize(batch_num, Cur.N, Cur.B)
    /\ df_batch' = records
    /\ transaction' = None
    /\ pc' = "write"
    /\ UNCHANGED <<config, now, block, stage, num_batches, batch_num, records,
                   all_files, dirs, files, started, completed, ranges, log, writes,
                   write_failed, run, prev_log, prev_run, reclaimed, stdout, exit_code>>

\* to_parquet / to_csv succeeds; all_files.append(filename)
WriteBatch ==
    /\ pc = "write"
    /\ LET filename == FileName(Cur, batch_num)
       IN /\ files' = WriteFile(files, filename, df_batch)
          /\ writes' = Append(writes, filename)
          /\ all_files' = IF Cur.batched THEN Append(all_files, filename) ELSE all_files
    /\ pc' = IF Cur.batched THEN "release" ELSE "return"
    /\ UNCHANGED <<config, now, block, stage, num_batches, batch_num, records, df_batch,
                   transaction, dirs, started, completed, ranges, log, write_failed,
                   run, prev_log, prev_run, reclaimed, stdout, exit_code>>

\* a failed write whose exception is swallowed: the loop goes on
WriteFails_swallowed ==
    /\ pc = "write"
    /\ write_failed' = TRUE
    /\ pc' = IF Cur.batched THEN "release" ELSE "return"
    /\ UNCHANGED <<config, now, block, stage, num_batches, batch_num, records, df_batch,
                   transaction, all_files, dirs, files, started, completed, ranges, log,
                   writes, run, prev_log, prev_run, reclaimed, stdout, exit_code>>

\* to_parquet / to_csv raises (disk full, permission): nothing, or a truncated
\* file, is left at the path
WriteFails ==
    /\ pc = "write"
    /\ \E created \in BOOLEAN :
          files' = IF created THEN TruncatedFile(files, FileName(Cur, batch_num))
                   ELSE files
    /\ write_failed' = TRUE
    /\ Raise
    /\ UNCHANGED <<config, now, block, stage, num_batches, batch_num, records, df_batch,
                   transaction, all_files, dirs, started, completed, ranges, log,
                   writes, run, prev_log, prev_run, reclaimed, stdout>>

\* del df_batch (and gc.collect() in the first block); next iteration
ReleaseBatch ==
    /\ pc = "release"
    /\ df_batch' = << >>
    /\ batch_num' = batch_num + 1
    /\ pc' = "loop"
    /\ reclaimed' = IF Cur.collects THEN TRUE ELSE reclaimed
    /\ UNCHANGED <<config, now, block, stage, num_batches, records, transaction,
                   all_files, dirs, files, started, completed, ranges, log, writes,
                   write_failed, run, prev_log, prev_run, stdout, exit_code>>

\* the pipeline function returns to the main block (gc.collect() in the first
\* block), which goes on to its next call or to its summary
ReturnFromPipeline ==
    /\ pc \in {"loop", "return"}
    /\ pc = "loop" => batch_num >= num_batches
    /\ records' = << >>
    /\ df_batch' = << >>
    /\ completed' = Append(completed, Cur.entity)
    /\ IF stage < 4
       THEN stage' = stage + 1 /\ pc' = "call"
       ELSE stage' = stage /\ pc' = "summary"
    /\ stdout' = stdout \o ReturnLines(block, Cur, num_batches, Len(all_files))
    /\ reclaimed' = IF block = 1 THEN TRUE ELSE reclaimed
    /\ UNCHANGED <<config, now, block, num_batches, batch_num, transaction, all_files,
                   dirs, files, started, ranges, log, writes, write_failed, run,
                   prev_log, prev_run, exit_code>>

\* the summary of a main block; after the first block the script goes on to the
\* second definitions and the second main block, after the second it ends
Summary ==
    /\ pc = "summary"
    /\ IF block = 1
       THEN block' = 2 /\ stage' = 1 /\ pc' = "call" /\ UNCHANGED exit_code
       ELSE pc' = "exited" /\ exit_code' = <<0>> /\ UNCHANGED <<block, stage>>
    /\ stdout' = stdout \o SummaryLines(block)
    /\ UNCHANGED <<config, now, num_batches, batch_num, records, df_batch, transaction,
                   all_files, dirs, files, started, completed, ranges, log, writes,
                   write_failed, run, prev_log, prev_run, reclaimed>>

\* the script is started again with the same configuration, later, on the
\* output tree the previous process left
Rerun ==
    /\ pc = "exited"
    /\ run < MaxRuns
    /\ run' = run + 1
    /\ \E t \in (now + 1) .. MaxClock : now' = t
    /\ prev_log' = log
    /\ prev_run' = [config |-> config, files |-> files, exit_code |-> exit_code]
    /\ reclaimed' = FALSE /\ stdout' = << >>
    /\ block' = 1 /\ stage' = 1 /\ pc' = "call"
    /\ num_batches' = 0 /\ batch_num' = 0
    /\ records' = << >> /\ df_batch' = << >> /\ transaction' = None
    /\ all_files' = << >> /\ started' = << >> /\ completed' = << >>
    /\ ranges' = << >> /\ log' = << >> /\ writes' = << >>
    /\ write_failed' = FALSE /\ exit_code' = << >>
    /\ UNCHANGED <<config, dirs, files>>

\* CUSTOMER_BATCH_SIZE of config.py is raised and the script is started again,
\* later, on the output tree the previous process left
ResizedConfigs(c) ==
    {[c EXCEPT !.CUSTOMER_BATCH_SIZE = size] :
        size \in (c.CUSTOMER_BATCH_SIZE + 1) .. MaxBatchSize}

\* a re-run that clears the output tree before it starts
RerunResized_clearing ==
    /\ pc = "exited"
    /\ prev_run = None
    /\ run' = run + 1
    /\ config' \in ResizedConfigs(config)
    /\ \E t \in (now + 1) .. MaxClock : now' = t
    /\ prev_log' = log
    /\ prev_run' = [config |-> config, files |-> files, exit_code |-> exit_code]
    /\ reclaimed' = FALSE /\ stdout' = << >>
    /\ block' = 1 /\ stage' = 1 /\ pc' = "call"
    /\ num_batches' = 0 /\ batch_num' = 0
    /\ records' = << >> /\ df_batch' = << >> /\ transaction' = None
    /\ all_files' = << >> /\ started' = << >> /\ completed' = << >>
    /\ ranges' = << >> /\ log' = << >> /\ writes' = << >>
    /\ write_failed' = FALSE /\ exit_code' = << >>
    /\ dirs' = {} /\ files' = << >>

RerunResized ==
    /\ pc = "exited"
    /\ prev_run = None
    /\ run' = run + 1
    /\ config' \in ResizedConfigs(config)
    /\ \E t \in (now + 1) .. MaxClock : now' = t
    /\ prev_log' = log
    /\ prev_run' = [config |-> config, files |-> files, exit_code |-> exit_code]
    /\ reclaimed' = FALSE /\ stdout' = << >>
    /\ block' = 1 /\ stage' = 1 /\ pc' = "call"
    /\ num_batches' = 0 /\ batch_num' = 0
    /\ records' = << >> /\ df_batch' = << >> /\ transaction' = None
    /\ all_files' = << >> /\ started' = << >> /\ completed' = << >>
    /\ ranges' = << >> /\ log' = << >> /\ writes' = << >>
    /\ write_failed' = FALSE /\ exit_code' = << >>
    /\ UNCHANGED <<dirs, files>>

Next ==
    \/ CallPipeline
    \/ BeginBatch
    \/ SynthesizeTransaction
    \/ BuildFrame
    \/ WriteBatch
    \/ WriteFails
    \/ ReleaseBatch
    \/ ReturnFromPipeline
    \/ Summary

NextRerun == Next \/ Rerun
NextResize == Next \/ RerunResized

(***************************************************************************)
(* The file names of a long run.  A run of LargeCount batches per pipeline *)
(* cannot be stepped through write by write; the writes it makes at the    *)
(* batch indices around a change of width of the formatted index are taken *)
(* in the order the run makes them, each with its name and its content.    *)
(***************************************************************************)
LargeCount == 10001
MaxSampled == 2

LargeConfigs == Configs({LargeCount}, {LargeCount}, {1})
InitLargeRun == InitWith(LargeConfigs)

\* batch indices whose {:03d} or {:05d} rendering is the last of one length or
\* the first of the next
SampleIndices == {0, 1, 999, 1000, 9999, 10000}

\* the place of write k of call s of main block b in the run's sequence of writes
Position(b, s, k) == ((b - 1) * 4 + (s - 1)) * LargeCount + k

\* the write of batch k of a later call or iteration of the run
WriteSampledBatch ==
    /\ Len(writes) < MaxSampled
    /\ \E b \in 1 .. 2, s \in 1 .. 4, k \in SampleIndices :
          LET p == MainCall(b, s)
              filename == FileName(p, k)
              start_id == StartId(k, p.B)
              current_batch_size == IF p.batched THEN CurrentBatchSize(k, p.N, p.B) ELSE p.N
          IN /\ k < (IF p.batched THEN NumBatches(p.N, p.B) ELSE 1)
             /\ IF writes = << >> THEN TRUE
                ELSE Position(b, s, k) > Position(block, stage, batch_num)
             /\ block' = b /\ stage' = s /\ batch_num' = k
             /\ writes' = Append(writes, filename)
             /\ files' = WriteFile(files, filename,
                                   BatchRecords(p, start_id, current_batch_size))
             /\ dirs' = dirs \cup {"generated-data", p.dir}
    /\ UNCHANGED <<config, now, pc, num_batches, records, df_batch, transaction,
                   all_files, started, completed, ranges, log, write_failed, run,
                   prev_log, prev_run, reclaimed, stdout, exit_code>>

NextLargeRun == WriteSampledBatch

Spec == Init /\ [][Next]_vars
SpecLargeRun == InitLargeRun /\ [][NextLargeRun]_vars
SpecAnyConfig == InitAnyConfig /\ [][Next]_vars
SpecRerun == InitRerun /\ [][NextRerun]_vars
SpecResize == InitResize /\ [][NextResize]_vars

(***************************************************************************)
(* Vocabulary of the properties.                                           *)
(***************************************************************************)
Range(q) == {q[i] : i \in 1 .. Len(q)}

\* ceil(N / B) for N, B > 0, by its defining property
CeilDiv(N, B) == CHOOSE k \in 0 .. N : k * B >= N /\ (k - 1) * B < N

Order == <<"customers", "products", "sales_reps", "transactions">>

InBatchLoop == pc \in {"loop", "synth", "write", "release"} /\ Cur.batched

LoopFinished == pc = "loop" /\ batch_num >= num_batches /\ Cur.batched

\* the ids of range i of `ranges`
Covered(i) == ranges[i].start .. (ranges[i].start + ranges[i].len - 1)

(***************************************************************************)
(* C1. For every N > 0 and B > 0 the batch loop of a pipeline produces     *)
(* exactly ceil(N/B) ranges [start, start+len), in increasing order,       *)
(* contiguous and non-overlapping, whose union is [0, N); every range has  *)
(* length B except possibly the last, which has length N-(numBatches-1)*B  *)
(* and is never empty; N < B gives one batch of length N.                  *)
(***************************************************************************)
C1_BatchRangesPartition ==
    InBatchLoop =>
      LET N == Cur.N
          B == Cur.B
      IN /\ num_batches = CeilDiv(N, B)
         /\ Len(ranges) <= num_batches
         /\ \A i \in 1 .. Len(ranges) :
               /\ ranges[i].start = (IF i = 1 THEN 0
                                     ELSE ranges[i - 1].start + ranges[i - 1].len)
               /\ ranges[i].len >= 1
               /\ i < num_batches => ranges[i].len = B
               /\ i = num_batches => /\ ranges[i].len = N - (num_batches - 1) * B
                                     /\ ranges[i].start + ranges[i].len = N
         /\ LoopFinished =>
               /\ Len(ranges) = CeilDiv(N, B)
               /\ \A x \in 0 .. (N - 1) :
                     Cardinality({i \in 1 .. Len(ranges) : x \in Covered(i)}) = 1
               /\ \A i \in 1 .. Len(ranges) : Covered(i) \subseteq 0 .. (N - 1)
               /\ N < B => (Len(ranges) = 1 /\ ranges[1].len = N)

\* a finished loop of several batches whose last batch is short
C1_Witness ==
    /\ LoopFinished
    /\ Len(ranges) >= 2
    /\ ranges[Len(ranges)].len < Cur.B

(***************************************************************************)
(* C6. If a write fails during any batch of any pipeline, the process      *)
(* exits with a non-zero status and nothing is synthesized, written or     *)
(* started after the failure; exit status 0 occurs only when all four      *)
(* pipelines completed (and no write failed).                              *)
(***************************************************************************)
C6_WriteFailureAborts ==
    /\ [](write_failed => Exited(1))
    /\ [][write_failed => UNCHANGED <<log, writes, files, started, completed>>]_vars
    /\ [](Exited(0) => (~write_failed /\ Range(completed) = Range(Order)))

\* the write of the second product batch of the first block failed
C6_Witness ==
    /\ write_failed
    /\ Exited(1)
    /\ block = 1 /\ stage = 2 /\ batch_num = 1
    /\ Range(completed) = {"customers"}

(***************************************************************************)
(* Reading the output tree back.                                           *)
(***************************************************************************)
DirFiles(dir) == {f \in DOMAIN files : f.dir = dir}

\* batch-index order of the files of one directory
Before(f, g) == \/ ParseInt(f.index) < ParseInt(g.index)
                \/ ParseInt(f.index) = ParseInt(g.index) /\ Len(f.index) < Len(g.index)

RECURSIVE ConcatFiles(_)
ConcatFiles(S) ==
    IF S = {} THEN << >>
    ELSE LET f == CHOOSE x \in S : \A y \in S \ {x} : Before(x, y)
         IN files[f].rows \o ConcatFiles(S \ {f})

\* the number of an identifier
IdNumber(id) == ParseInt(id.digits)

Pipelines == {MainCall(1, s) : s \in 1 .. 4}

(***************************************************************************)
(* C2. Round trip: after a complete run started on an empty output tree,   *)
(* for each entity type, concatenating all files of that entity's output   *)
(* directory in batch-index order yields exactly N records, the sequence   *)
(* positions 0 .. N-1 each exactly once and in order.                      *)
(***************************************************************************)
C2_RoundTrip ==
    (Exited(0) /\ run = 1) =>
       \A p \in Pipelines :
          LET rows == ConcatFiles(DirFiles(p.dir))
          IN /\ Len(rows) = p.N
             /\ \A i \in 1 .. Len(rows) : IdNumber(rows[i].id) = i - 1

(***************************************************************************)
(* C3. A run with NUM_CUSTOMERS = N and CUSTOMER_BATCH_SIZE = B yields     *)
(* exactly ceil(N/B) customer batches and exactly that many customer       *)
(* files, customers_batch_000, _001, ..., the k-th holding the             *)
(* min(B, N-k*B) records of the id range [k*B, k*B+len).                   *)
(***************************************************************************)
C3_CustomerFiles ==
    (Exited(0) /\ run = 1) =>
       LET N == config.NUM_CUSTOMERS
           B == config.CUSTOMER_BATCH_SIZE
           p == generate_all_customers(2)
           written == {i \in 1 .. Len(writes) : writes[i].dir = p.dir}
       IN /\ Cardinality(written) = CeilDiv(N, B)
          /\ DirFiles(p.dir) = {FileName(p, k) : k \in 0 .. (CeilDiv(N, B) - 1)}
          /\ \A k \in 0 .. (CeilDiv(N, B) - 1) :
                FileName(p, k) \in DOMAIN files =>
                   LET rows == files[FileName(p, k)].rows
                   IN /\ Len(rows) = Min(B, N - k * B)
                      /\ \A i \in 1 .. Len(rows) : IdNumber(rows[i].id) = k * B + i - 1

(***************************************************************************)
(* C4. Within one run, for each entity type, the identifiers of all        *)
(* generated records are pairwise distinct and all have one format: the    *)
(* same prefix and the same digit width.                                   *)
(***************************************************************************)
C4_IdentifiersOneFormat ==
    \A i, j \in 1 .. Len(log) :
       (log[i].entity = log[j].entity) =>
          /\ log[i].id.prefix = log[j].id.prefix
          /\ Len(log[i].id.digits) = Len(log[j].id.digits)
          /\ (i # j => log[i].id # log[j].id)

(***************************************************************************)
(* C5. The number of every customer, product and sales-rep reference of a  *)
(* generated transaction lies in [0, configured count) of that entity type.*)
(***************************************************************************)
ConfiguredCount(field) == CASE field = "customer_id" -> config.NUM_CUSTOMERS
                            [] field = "product_id" -> config.NUM_PRODUCTS
                            [] field = "sales_rep_id" -> config.NUM_SALES_REPS

C5_ReferencesInRange ==
    transaction # None =>
       /\ 0 <= IdNumber(transaction.value)
       /\ IdNumber(transaction.value) < ConfiguredCount(transaction.field)

(***************************************************************************)
(* C7. In every run the pipelines started are exactly customers, products, *)
(* sales reps, transactions, in that order, each started only after the    *)
(* previous one returned, and no customer, product or sales-rep record is  *)
(* generated after the first transaction record.                           *)
(***************************************************************************)
C7_FixedOrderOnce ==
    /\ Len(started) <= Len(Order)
    /\ \A i \in 1 .. Min(Len(started), Len(Order)) : started[i] = Order[i]
    /\ Len(started) <= Len(completed) + 1
    /\ Exited(0) => started = Order
    /\ \A i, j \in 1 .. Len(log) :
          (i < j /\ log[i].entity = "transactions") => log[j].entity = "transactions"

(***************************************************************************)
(* C8. A configuration error (a non-positive count or batch size) makes    *)
(* the run fail before any output is created: when the run ends, the exit  *)
(* status is non-zero and no output directory or file exists.              *)
(***************************************************************************)
C8_ConfigErrorFailsFast ==
    (pc = "exited" /\ ~ValidConfig) =>
       /\ exit_code = <<1>>
       /\ dirs = {}
       /\ DOMAIN files = {}

(***************************************************************************)
(* C9. Two runs with identical configuration and seed generate the same    *)
(* sequence of records, field for field (created_at included).             *)
(***************************************************************************)
C9_RunsIdentical ==
    run = 2 =>
       \A i \in 1 .. Min(Len(log), Len(prev_log)) : log[i] = prev_log[i]

(***************************************************************************)
(* C10. Every output file is located in generated-data/<entity-dir>/ and   *)
(* is named <entity>_batch_<zero-padded batch index>.<ext>, one file per   *)
(* batch: no file name lacks the batch index.                              *)
(***************************************************************************)
C10_FileNaming ==
    \A i \in 1 .. Len(writes) :
       /\ \E p \in Pipelines :
             /\ writes[i].dir = p.dir
             /\ writes[i].stem = p.stem
             /\ Len(files[writes[i]].rows) <= p.B
       /\ Len(writes[i].index) >= 1
       /\ writes[i].ext \in {"parquet", "csv"}

(***************************************************************************)
(* C11. At every point of a run, for every entity type, the number of that *)
(* type's records held in memory (synthesized and not yet released) is at  *)
(* most the batch size configured for that entity type.                    *)
(***************************************************************************)
\* the records reachable from the running function's locals
InMemory == Range(records) \cup Range(df_batch)

\* the batch size each entity's pipeline is configured with (lines 92, 127, 180, 235)
BatchSizeOf(entity) == (CHOOSE p \in Pipelines : p.entity = entity).B

C11_AtMostOneBatchInMemory ==
    \A e \in Range(Order) :
       Cardinality({r \in InMemory : r.entity = e}) <= BatchSizeOf(e)

(***************************************************************************)
(* C12. Between two consecutive pipelines a full garbage-collection pass   *)
(* has run: when the main block is about to call the next pipeline, no     *)
(* record has been synthesized since the last gc.collect(); and within a   *)
(* pipeline the batch frame is released before the synthesis of the next   *)
(* batch starts.                                                           *)
(***************************************************************************)
C12_CollectedBetweenPipelines ==
    /\ (pc = "call" /\ Len(completed) >= 1) => reclaimed
    /\ pc = "loop" => df_batch = << >>

\* the printed lines of one kind
Lines(kind) == {i \in 1 .. Len(stdout) : stdout[i].kind = kind}

\* the pipeline a printed line belongs to
PipelineOf(line) ==
    CHOOSE p \in {MainCall(line.block, s) : s \in 1 .. 4} : p.entity = line.entity

(***************************************************************************)
(* C15. Every progress line reports a batch that was processed and its id  *)
(* range: for the reported batch k (zero-based) the range printed is       *)
(* [k*B, k*B + min(B, N - k*B) - 1], and no printed bound is negative or   *)
(* beyond N - 1, also when B does not divide N and when N < B.             *)
(***************************************************************************)
C15_ProgressLinesReportBatches ==
    \A i \in Lines("batch") :
       LET line == stdout[i]
           p == PipelineOf(line)
           k == line.batch - 1
       IN /\ k \in 0 .. (CeilDiv(p.N, p.B) - 1)
          /\ line.lo = k * p.B
          /\ line.hi = k * p.B + Min(p.B, p.N - k * p.B) - 1
          /\ 0 <= line.lo /\ line.hi <= p.N - 1

\* the writes of this process that pipeline p made
WrittenBy(p) ==
    {i \in 1 .. Len(writes) :
        /\ writes[i].dir = p.dir
        /\ Len(writes[i].index) = IF p.batched THEN p.idxwidth ELSE 0}

(***************************************************************************)
(* C16. Each file count printed in a summary equals the number of files    *)
(* the pipeline of that entity wrote before the summary, which is          *)
(* ceil(N/B) for a batched pipeline, also when B divides N.                *)
(***************************************************************************)
C16_SummaryCountsFilesWritten ==
    \A i \in Lines("summary") :
       LET line == stdout[i]
           p == PipelineOf(line)
       IN /\ line.files = Cardinality(WrittenBy(p))
          /\ p.batched => line.files = CeilDiv(p.N, p.B)

(***************************************************************************)
(* C13. No output path is written twice by one process, however many       *)
(* batches the run has and whatever the width its index was padded to:     *)
(* the paths of any two writes of the run differ.                          *)
(***************************************************************************)
C13_NoPathWrittenTwice ==
    \A i, j \in 1 .. Len(writes) : i # j => writes[i] # writes[j]

\* the number of earlier writes of this process by the pipeline that made write i
WriteIndex(i) ==
    Cardinality({j \in 1 .. (i - 1) : /\ writes[j].dir = writes[i].dir
                                      /\ Len(writes[j].index) = Len(writes[i].index)})

\* the files the previous process left whose batch index the present
\* configuration does not reach in pipeline p's directory
LeftoverFiles(p) ==
    IF prev_run = None THEN {}
    ELSE {f \in DOMAIN prev_run.files :
             /\ f.dir = p.dir /\ f.index # << >>
             /\ ParseInt(f.index) >= CeilDiv(p.N, p.B)}

(***************************************************************************)
(* C14. The path of a batch file is made of the entity's directory and     *)
(* name, the batch index and the encoding only: whatever the batch size    *)
(* and whatever an earlier process left, a process numbers the batches of  *)
(* each pipeline from zero, writes its own rows at those paths (over a     *)
(* file of the same index that was there) and removes no file and no       *)
(* directory.  So in a re-run with a larger batch size every file of the   *)
(* earlier process whose index is at least ceil(N/B2) stays as it was, and *)
(* once the re-run is complete such a directory holds more than N records. *)
(***************************************************************************)
C14_RerunOverwritesByIndex ==
    /\ [](\A i \in 1 .. Len(writes) :
            /\ \E b \in 1 .. 2, st \in 1 .. 4 :
                  /\ writes[i].dir = MainCall(b, st).dir
                  /\ writes[i].stem = MainCall(b, st).stem
            /\ writes[i].ext = config.OUTPUT_FORMAT
            /\ writes[i].index # << >> => ParseInt(writes[i].index) = WriteIndex(i)
            /\ writes[i] \in DOMAIN files
            /\ files[writes[i]].valid
            /\ \A r \in Range(files[writes[i]].rows) : r.created_at = now)
    /\ [][(DOMAIN files \subseteq DOMAIN files') /\ (dirs \subseteq dirs')]_vars
    /\ [](\A q \in Pipelines : \A f \in LeftoverFiles(q) :
            f \in DOMAIN files /\ files[f] = prev_run.files[f])
    /\ []((prev_run # None /\ Exited(0)) =>
            \A q \in Pipelines :
               LeftoverFiles(q) # {} => Len(ConcatFiles(DirFiles(q.dir))) > q.N)

\* a complete run, then a complete run with a larger CUSTOMER_BATCH_SIZE: it wrote
\* over a customers file of the first run and left another one behind
C14_Witness ==
    /\ prev_run # None /\ prev_run.exit_code = <<0>> /\ Exited(0)
    /\ config.CUSTOMER_BATCH_SIZE > prev_run.config.CUSTOMER_BATCH_SIZE
    /\ LeftoverFiles(generate_all_customers(1)) # {}
    /\ \E i \in 1 .. Len(writes) :
          /\ writes[i].dir = generate_all_customers(1).dir
          /\ writes[i] \in DOMAIN prev_run.files
          /\ files[writes[i]] # prev_run.files[writes[i]]
====
